---- MODULE Spec2Model ----
(***************************************************************************)
(* A model of `ion beta inspect` (src/bin/ion/commands/beta/inspect.rs):   *)
(* the recursive traversal IonInspector::inspect_level over a binary Ion   *)
(* stream, its skip/limit byte window, and the rows it hands to output().  *)
(*                                                                         *)
(* Strings are modelled as sequences: a hex column is a sequence of one-   *)
(* character strings, a text column is the sequence of pieces appended to  *)
(* the text buffer, and the indentation buffer is the sequence of its      *)
(* spaces.  Option<T> is <<>> (None) or <<x>> (Some(x)).                    *)
(***************************************************************************)
EXTENDS Integers, Sequences, FiniteSets, TLC

(***************************************************************************)
(* Bounds of the input space.                                              *)
(***************************************************************************)
\* Largest number of items (user values and local symbol tables) that follow
\* the leading version marker of an input stream.
MaxNodes == 3
\* Largest --skip-bytes argument tried.
MaxSkip == 8
\* Largest --limit-bytes argument tried (0 is "no limit").
MaxLimit == 2
\* Largest number of bytes whose hex is handed to the table writer on its own.
MaxHexBytes == 17

(***************************************************************************)
(* Program constants.                                                      *)
(***************************************************************************)
\* usize::MAX, scaled to the widest integer TLC computes with.
USIZE_MAX == 2147483647
\* LEVEL_INDENTATION: two spaces per level.
LEVEL_INDENTATION == <<" ", " ">>
\* Mutant: system events indented like the first nested level.
SYSTEM_EVENT_INDENTATION_one_level == <<" ", " ">>
\* System events are always at the top level.
SYSTEM_EVENT_INDENTATION == <<>>
IVM_HEX == <<"e", "0", " ", "0", "1", " ", "0", "0", " ", "e", "a">>
IVM_TEXT == <<"// Ion 1.0 Version Marker">>
\* The filler passed as the hex column of comment rows.
ELLIPSIS == <<".", ".", ".">>
\* Number of symbols of the Ion 1.0 system symbol table.
ION_1_0_SYSTEM_TABLE_LENGTH == 10
\* The four bytes inspect_file matches the input against.
IVM_BYTES == <<224, 1, 0, 234>>

None == <<>>
Some(x) == <<x>>

ContainerTypes == {"List", "SExpression", "Struct"}

(***************************************************************************)
(* The input: a binary Ion stream.  An item is a user value or a local     *)
(* symbol table (which the reader consumes itself); items are listed in    *)
(* document order, each with its nesting depth.                            *)
(***************************************************************************)
\* The user values an input is built from: type, nullness, annotation count.
\* They cover a short scalar (a symbol, which also carries a comment), a
\* scalar whose header has a length field and whose hex does not fit one
\* line (a string of 14 bytes), the containers with and without field ids
\* for their children, and a value that is annotated and a typed null
\* container: name::null.sexp.
ValueShapes ==
  { [kind |-> "value", type |-> "Symbol", isNull |-> FALSE, nAnnot |-> 0],
    [kind |-> "value", type |-> "String", isNull |-> FALSE, nAnnot |-> 0],
    [kind |-> "value", type |-> "List", isNull |-> FALSE, nAnnot |-> 0],
    [kind |-> "value", type |-> "Struct", isNull |-> FALSE, nAnnot |-> 0],
    [kind |-> "value", type |-> "SExpression", isNull |-> TRUE, nAnnot |-> 1] }

\* Local symbol tables: $ion_symbol_table::{imports:$ion_symbol_table} (an
\* append) and $ion_symbol_table::{} (a reset).  Only at the top level.
SystemShapes ==
  { [kind |-> "append", type |-> "Struct", isNull |-> FALSE, nAnnot |-> 1],
    [kind |-> "reset", type |-> "Struct", isNull |-> FALSE, nAnnot |-> 1] }

WithDepth(sh, d) ==
  [kind |-> sh.kind, type |-> sh.type, isNull |-> sh.isNull,
   nAnnot |-> sh.nAnnot, depth |-> d]

\* A value that can hold children.
HasBody(it) == it.kind = "value" /\ it.type \in ContainerTypes /\ ~it.isNull

\* The items that may follow the prefix s in document order.
NextItems(s) ==
  LET maxd == IF s = <<>> THEN 0
              ELSE IF HasBody(s[Len(s)]) THEN s[Len(s)].depth + 1
              ELSE s[Len(s)].depth
  IN  {WithDepth(sh, d) : sh \in ValueShapes, d \in 0..maxd}
      \cup {WithDepth(sh, 0) : sh \in SystemShapes}

RECURSIVE StreamsOfLen(_)
StreamsOfLen(n) ==
  IF n = 0 THEN {<<>>}
  ELSE UNION {{Append(s, it) : it \in NextItems(s)} : s \in StreamsOfLen(n - 1)}

Shapes == UNION {StreamsOfLen(n) : n \in 0..MaxNodes}

\* --- the tree structure of a shape sequence s ---
Parent(s, i) ==
  IF s[i].depth = 0 THEN 0
  ELSE CHOOSE p \in 1..(i - 1) :
         /\ s[p].depth = s[i].depth - 1
         /\ \A m \in (p + 1)..(i - 1) : s[m].depth >= s[i].depth

\* Index of the last descendant of i (i itself if it has none).
LastDesc(s, i) ==
  CHOOSE l \in i..Len(s) :
    /\ \A m \in (i + 1)..l : s[m].depth > s[i].depth
    /\ (l = Len(s) \/ s[l + 1].depth <= s[i].depth)

\* --- the binary encoding of s ---
\* The UTF-8 bytes of the strings of the inputs: "abcdefghijklmn".
STRING_BYTES == [k \in 1..14 |-> 96 + k]
\* A VarUInt of one byte: its value with the end flag set.
VarUInt(n) == <<128 + n>>
\* Bytes of the length field that follows a type descriptor.
LengthField(n) == IF n < 14 THEN <<>> ELSE VarUInt(n)
TypeCode(type) ==
  CASE type = "Integer" -> 2
    [] type = "Symbol" -> 7
    [] type = "String" -> 8
    [] type = "List" -> 11
    [] type = "SExpression" -> 12
    [] type = "Struct" -> 13
    [] type = "Annotation" -> 14
\* Type descriptor byte plus length field.
Header(type, isNull, len) ==
  <<TypeCode(type) * 16 + (IF isNull THEN 15 ELSE IF len < 14 THEN len ELSE 14)>>
    \o (IF isNull THEN <<>> ELSE LengthField(len))

\* Symbol ids used by the inputs: $3 = $ion_symbol_table, $4 = name,
\* $6 = imports.
AnnotationIds(it) ==
  IF it.nAnnot = 0 THEN <<>>
  ELSE IF it.kind = "value" THEN [n \in 1..it.nAnnot |-> 4]
  ELSE <<3>>

RECURSIVE BodyBytes(_, _), ItemBytes(_, _), RangeBytes(_, _, _)
\* The items j..hi that are siblings, encoded one after the other.
RangeBytes(s, j, hi) ==
  IF j > hi THEN <<>>
  ELSE ItemBytes(s, j) \o RangeBytes(s, LastDesc(s, j) + 1, hi)
BodyBytes(s, i) ==
  IF s[i].kind = "append" THEN <<128 + 6, 113, 3>>
  ELSE IF s[i].kind = "reset" \/ s[i].isNull THEN <<>>
  ELSE IF s[i].type = "Integer" THEN <<7>>
  ELSE IF s[i].type = "Symbol" THEN <<4>>
  ELSE IF s[i].type = "String" THEN STRING_BYTES
  ELSE RangeBytes(s, i + 1, LastDesc(s, i))
FieldBytes(s, i) ==
  IF Parent(s, i) # 0 /\ s[Parent(s, i)].type = "Struct" THEN VarUInt(4) ELSE <<>>
ValueBytes(s, i) ==
  Header(s[i].type, s[i].isNull, Len(BodyBytes(s, i))) \o BodyBytes(s, i)
\* The annotation wrapper's own bytes: descriptor, annot_length, the ids.
WrapperBytes(s, i) ==
  IF s[i].nAnnot = 0 THEN <<>>
  ELSE LET ids == AnnotationIds(s[i])
           sids == [n \in 1..Len(ids) |-> 128 + ids[n]]
       IN  Header("Annotation", FALSE, 1 + Len(ids) + Len(ValueBytes(s, i)))
             \o VarUInt(Len(ids)) \o sids
ItemBytes(s, i) == FieldBytes(s, i) \o WrapperBytes(s, i) \o ValueBytes(s, i)

\* The whole input: the version marker, then the top-level items.
Encode(s) == IVM_BYTES \o RangeBytes(s, 1, Len(s))

\* Inputs that are not binary Ion: empty, cut short inside the version
\* marker, and with a wrong last byte of the marker.
NotIon == {<<>>, <<224, 1, 0>>, <<224, 1, 0, 235, 176>>}

\* --- where each part of item i lies in Encode(s) ---
RECURSIVE StartOf(_, _)
StartOf(s, i) ==
  IF i = 1 THEN Len(IVM_BYTES)
  ELSE IF s[i - 1].depth < s[i].depth
    THEN \* first child: right after the parent's header
         StartOf(s, i - 1) + Len(FieldBytes(s, i - 1)) + Len(WrapperBytes(s, i - 1))
           + Len(Header(s[i - 1].type, s[i - 1].isNull, Len(BodyBytes(s, i - 1))))
    ELSE LET prev == CHOOSE j \in 1..(i - 1) : LastDesc(s, j) = i - 1
                                               /\ s[j].depth = s[i].depth
         IN  StartOf(s, prev) + Len(ItemBytes(s, prev))

\* What the reader knows of item i when parked on it.  header_length is the
\* length field that follows the type descriptor; symbols are the symbols a
\* local symbol table declares (the tables of the inputs declare none).
Item(s, i) ==
  LET start == StartOf(s, i)
      fl == Len(FieldBytes(s, i))
      al == Len(WrapperBytes(s, i))
      body == Len(BodyBytes(s, i))
      hl == Len(Header(s[i].type, s[i].isNull, body))
  IN  [kind |-> s[i].kind, type |-> s[i].type, isNull |-> s[i].isNull,
       depth |-> s[i].depth, parent |-> Parent(s, i), last |-> LastDesc(s, i),
       field_id |-> IF fl > 0 THEN Some(4) ELSE None,
       field_id_offset |-> IF fl > 0 THEN Some(start) ELSE None,
       field_id_length |-> IF fl > 0 THEN Some(fl) ELSE None,
       annotation_ids |-> AnnotationIds(s[i]),
       symbols |-> <<>>,
       annotations_offset |-> IF al > 0 THEN Some(start + fl) ELSE None,
       annotations_length |-> IF al > 0 THEN Some(al) ELSE None,
       header_offset |-> start + fl + al,
       header_length |-> hl - 1,
       value_length |-> body,
       value_end |-> start + fl + al + hl + body]

Items(s) == [i \in 1..Len(s) |-> Item(s, i)]


(***************************************************************************)
(* Pure helpers of inspect.rs.                                             *)
(***************************************************************************)
HexDigits ==
  <<"0", "1", "2", "3", "4", "5", "6", "7", "8", "9", "a", "b", "c", "d", "e", "f">>
\* format!("{:02x}", byte)
HexByte(b) == <<HexDigits[(b \div 16) + 1], HexDigits[(b % 16) + 1]>>

RECURSIVE HexTail(_)
HexTail(bytes) ==
  IF bytes = <<>> THEN <<>>
  ELSE <<" ">> \o HexByte(Head(bytes)) \o HexTail(Tail(bytes))
\* Mutant: the first byte left out.
to_hex_without_first(buffer, bytes) ==
  IF Len(bytes) = 0 THEN buffer
  ELSE buffer \o HexTail(Tail(bytes))

\* to_hex: appends the bytes to the buffer, space separated.
to_hex(buffer, bytes) ==
  IF Len(bytes) = 0 THEN buffer
  ELSE buffer \o HexByte(bytes[1]) \o HexTail(Tail(bytes))

RECURSIVE JoinTail(_, _)
JoinTail(delimiter, values) ==
  IF values = <<>> THEN <<>>
  ELSE <<delimiter, Head(values)>> \o JoinTail(delimiter, Tail(values))
\* join_into: appends the values to the buffer with the delimiter between them.
join_into(buffer, delimiter, values) ==
  IF values = <<>> THEN buffer
  ELSE buffer \o <<Head(values)>> \o JoinTail(delimiter, Tail(values))

closing_delimiter_for(container_type) ==
  CASE container_type = "List" -> "]"
    [] container_type = "SExpression" -> ")"
    [] container_type = "Struct" -> "}"

\* ColoredString's Display for .dimmed(): the text between the escape codes.
Dimmed(text) == <<"\\e[2m">> \o text \o <<"\\e[0m">>

\* usize::saturating_sub
saturating_sub(a, b) == IF a >= b THEN a - b ELSE 0

\* String::truncate
Truncate(buffer, new_length) ==
  IF new_length >= Len(buffer) THEN buffer ELSE SubSeq(buffer, 1, new_length)

\* Mutant: the buffer keeps what it held.
clear_forgotten(buffer) == buffer

\* String::clear, Vec::clear
clear(buffer) == <<>>

\* The symbol table's text for a symbol id (the system symbols the inputs use).
text_for(sid) ==
  CASE sid = 3 -> "$ion_symbol_table"
    [] sid = 4 -> "name"
    [] sid = 6 -> "imports"

\* TextWriter::write_string: the text between double quotes (the strings of
\* the inputs are lower-case letters, which need no escapes).
Letters ==
  <<"a", "b", "c", "d", "e", "f", "g", "h", "i", "j", "k", "l", "m", "n">>
RECURSIVE Utf8Text(_)
Utf8Text(bytes) ==
  IF bytes = <<>> THEN ""
  ELSE Letters[Head(bytes) - 96] \o Utf8Text(Tail(bytes))
StringText(bytes) == "\"" \o Utf8Text(bytes) \o "\""

\* TextWriter::write_null
NullText(type) ==
  CASE type = "Integer" -> "null.int"
    [] type = "Symbol" -> "null.symbol"
    [] type = "String" -> "null.string"
    [] type = "List" -> "null.list"
    [] type = "SExpression" -> "null.sexp"
    [] type = "Struct" -> "null.struct"

(***************************************************************************)
(* The table writer.  A row is one call of output(): its five arguments    *)
(* and the lines the call writes.  site and node are history only: the     *)
(* call site that wrote the row and the index of the item the row is about *)
(* (0: none).                                                              *)
(***************************************************************************)
CHARS_PER_HEX_BYTE == 3
HEX_BYTES_PER_ROW == 8
HEX_COLUMN_SIZE == HEX_BYTES_PER_ROW * CHARS_PER_HEX_BYTE

\* The padding spaces written one by one after a short slice of hex.
Padding(n) == [k \in 1..n |-> " "]

\* A line of the table: the offset and length cells (None: blank), the hex
\* cell, and the text cell (None: nothing after the last delimiter).
Line(offset, length, hex, text) ==
  [offset |-> offset, length |-> length, hex |-> hex, text |-> text]

\* The lines of output()'s while loop, from col_1_written on.
RECURSIVE ContinuationLines(_, _)
ContinuationLines(hex_column, col_1_written) ==
  IF col_1_written < Len(hex_column)
    THEN LET remaining_bytes == Len(hex_column) - col_1_written
             bytes_to_write == IF remaining_bytes < HEX_COLUMN_SIZE
                                 THEN remaining_bytes ELSE HEX_COLUMN_SIZE
             next_slice_to_write ==
               SubSeq(hex_column, col_1_written + 1, col_1_written + bytes_to_write)
         IN  <<Line(None, None,
                    next_slice_to_write \o Padding(HEX_COLUMN_SIZE - bytes_to_write),
                    None)>>
               \o ContinuationLines(hex_column, col_1_written + HEX_COLUMN_SIZE)
    ELSE <<>>

\* Mutant: the hex column is never continued on further lines.
Lines_without_continuation(offset, length, indentation, hex_column, text_column) ==
  LET first_hex ==
        IF Len(hex_column) < HEX_COLUMN_SIZE
          THEN hex_column \o Padding(HEX_COLUMN_SIZE - Len(hex_column))
          ELSE SubSeq(hex_column, 1, HEX_COLUMN_SIZE)
  IN  <<Line(offset, length, first_hex, Some(indentation \o text_column))>>

\* Everything one call of output() writes.
Lines(offset, length, indentation, hex_column, text_column) ==
  LET first_hex ==
        IF Len(hex_column) < HEX_COLUMN_SIZE
          THEN hex_column \o Padding(HEX_COLUMN_SIZE - Len(hex_column))
          ELSE SubSeq(hex_column, 1, HEX_COLUMN_SIZE)
  IN  <<Line(offset, length, first_hex, Some(indentation \o text_column))>>
        \o ContinuationLines(hex_column, HEX_COLUMN_SIZE)

output(sink, site, node, offset, length, indentation, hex_column, text_column) ==
  Append(sink, [site |-> site, node |-> node, offset |-> offset, length |-> length,
                indentation |-> indentation, hex_column |-> hex_column,
                text_column |-> text_column,
                lines |-> Lines(offset, length, indentation, hex_column, text_column)])

\* RefCell::borrow_mut on the output: one more RefMut alive.  With one alive
\* already, borrow_mut panics ("already borrowed").
borrow_mut(refs) == refs + 1
\* Mutant: the RefMut outlives the call.
drop_forgotten(refs) == refs

\* The RefMut goes out of scope when output() or write_header() returns.
drop(refs) == refs - 1

\* write_header: the rule lines and the column titles.
write_header(sink) ==
  Append(sink, [site |-> "header", node |-> 0, offset |-> None, length |-> None,
                indentation |-> <<>>, hex_column |-> <<>>,
                text_column |-> <<"Offset", "Length", "Binary Ion", "Text Ion">>,
                lines |-> <<>>])


(***************************************************************************)
(* State.                                                                  *)
(***************************************************************************)
VARIABLES
  ion_data,            \* the mmap()ed input bytes
  stream,              \* the items the reader finds in ion_data
  args,                \* the --skip-bytes and --limit-bytes arguments
  bytes_to_skip,       \* IonInspector.bytes_to_skip
  limit_bytes,         \* IonInspector.limit_bytes
  pc,                  \* where the run stands
  frames,              \* the active inspect_level calls and their locals
  parents,             \* reader: the containers stepped into
  cur,                 \* reader: the value it is parked on (0: none)
  nxt,                 \* reader: the item next() looks at next (0: the marker)
  indentation_buffer,
  hex_buffer,
  text_buffer,
  color_buffer,
  text_ion_writer,     \* the output Vec of the TextWriter, flushed
  summarizer_text_buffer,  \* SystemLevelEventSummarizer.text_buffer
  out,                 \* the rows written to the output
  borrow,              \* the output's RefCell: the RefMuts that are alive
  result,              \* what run returns: "running", "ok" or "err"
  error                \* the error on its way to the caller, or None

vars == <<ion_data, stream, args, bytes_to_skip, limit_bytes, pc, frames, parents,
          cur, nxt, indentation_buffer, hex_buffer, text_buffer, color_buffer,
          text_ion_writer, summarizer_text_buffer, out, borrow, result, error>>

input == <<ion_data, stream, args>>
window == <<bytes_to_skip, limit_bytes>>
reader == <<parents, cur, nxt>>
scratch == <<hex_buffer, text_buffer, color_buffer, text_ion_writer>>
sink == <<out, borrow>>
outcome == <<result, error>>

Init ==
  /\ \/ \E s \in Shapes :
          /\ ion_data = Encode(s)
          /\ stream = Items(s)
     \/ /\ ion_data \in NotIon
        /\ stream = <<>>
  /\ \E k \in 0..MaxSkip, m \in 0..MaxLimit :
       args = [skip |-> k, limit |-> m, input |-> "data.10n"]
  /\ bytes_to_skip = 0
  /\ limit_bytes = 0
  /\ pc = "run"
  /\ frames = <<>>
  /\ parents = <<>>
  /\ cur = 0
  /\ nxt = 0
  /\ indentation_buffer = <<>>
  /\ hex_buffer = <<>>
  /\ text_buffer = <<>>
  /\ color_buffer = <<>>
  /\ text_ion_writer = <<>>
  /\ summarizer_text_buffer = <<>>
  /\ out = <<>>
  /\ borrow = 0
  /\ result = "running"
  /\ error = None

(***************************************************************************)
(* The reader, as inspect.rs uses it.                                      *)
(***************************************************************************)
\* reader.depth()
depth == Len(parents)
\* The last item of the level the reader is in.
LevelEnd == IF parents = <<>> THEN Len(stream) ELSE stream[parents[Len(parents)]].last
\* The value the reader is parked on.
value == stream[cur]

raw_bytes(offset, length) == SubSeq(ion_data, offset + 1, offset + length)
raw_field_id_bytes == raw_bytes(value.field_id_offset[1], value.field_id_length[1])
raw_annotations_bytes ==
  raw_bytes(value.annotations_offset[1], value.annotations_length[1])
raw_header_bytes == raw_bytes(value.header_offset, 1 + value.header_length)
raw_value_bytes ==
  raw_bytes(value.header_offset + 1 + value.header_length, value.value_length)

first_value_byte_offset ==
  IF value.field_id_offset # None THEN value.field_id_offset[1]
  ELSE IF value.annotations_offset # None THEN value.annotations_offset[1]
  ELSE value.header_offset

\* Mutant: the range starts at the header, field id and annotations left out.
complete_value_range_from_header ==
  [start |-> value.header_offset, end |-> value.value_end]

complete_value_range == [start |-> first_value_byte_offset, end |-> value.value_end]

(***************************************************************************)
(* run and inspect_file.                                                   *)
(***************************************************************************)
\* Mutant: "0 means no limit" forgotten.
normalize_limit_forgotten(limit_bytes_arg) == limit_bytes_arg

\* --limit-bytes 0 means no limit.
normalize_limit(limit_bytes_arg) ==
  IF limit_bytes_arg = 0 THEN USIZE_MAX ELSE limit_bytes_arg

\* run: parses the window.
Run ==
  /\ pc = "run"
  /\ bytes_to_skip' = args.skip
  /\ limit_bytes' = normalize_limit(args.limit)
  /\ pc' = "inspect_file"
  /\ UNCHANGED <<input, frames, reader, indentation_buffer, scratch,
                 summarizer_text_buffer, sink, outcome>>

\* Mutant: the last byte of the marker is not looked at.
StartsWithIvm_three_bytes(data) ==
  Len(data) >= 3 /\ SubSeq(data, 1, 3) = SubSeq(IVM_BYTES, 1, 3)

\* The pattern [0xE0, 0x01, 0x00, 0xEA, ..] of inspect_file.
StartsWithIvm(data) == Len(data) >= 4 /\ SubSeq(data, 1, 4) = IVM_BYTES

\* The errors inspect_file makes itself.
CouldNotMmap(input_file_name) ==
  [kind |-> "mmap", message |-> <<"Could not mmap '", input_file_name, "'">>]
NotBinaryIon(input_file_name) ==
  [kind |-> "bail",
   message |-> <<"Input file '", input_file_name, "' does not appear to be binary Ion.">>]

\* inspect_file: maps the input, checks the version marker, writes the
\* header, starts the traversal with a fresh IonInspector.  Mapping an empty
\* file may fail, depending on the platform; the error of inspect_file is
\* what run returns.
InspectFile ==
  /\ pc = "inspect_file"
  /\ \E mapped \in (IF Len(ion_data) = 0 THEN {TRUE, FALSE} ELSE {TRUE}) :
       IF mapped /\ StartsWithIvm(ion_data)
         THEN /\ out' = write_header(out)
              /\ borrow' = drop(borrow_mut(borrow))
              /\ pc' = "inspect_level"
              /\ UNCHANGED outcome
         ELSE /\ UNCHANGED sink
              /\ pc' = "done"
              /\ result' = "err"
              /\ error' = IF mapped THEN Some(NotBinaryIon(args.input))
                                    ELSE Some(CouldNotMmap(args.input))
  /\ UNCHANGED <<input, window, frames, reader, indentation_buffer, scratch,
                 summarizer_text_buffer>>

(***************************************************************************)
(* inspect_level.                                                          *)
(***************************************************************************)
\* Mutant: the top level is indented too.
increase_indentation_always(buffer) == buffer \o LEVEL_INDENTATION

increase_indentation(buffer) ==
  IF depth > 0 THEN buffer \o LEVEL_INDENTATION ELSE buffer

\* Mutant: the indentation is left as it is.
decrease_indentation_forgotten(buffer) == buffer

decrease_indentation(buffer) ==
  IF depth > 0 THEN Truncate(buffer, Len(buffer) - Len(LEVEL_INDENTATION)) ELSE buffer

top == frames[Len(frames)]
SetTop(f) == [frames EXCEPT ![Len(frames)] = f]
\* Where a returning inspect_level call continues: in its caller, or in
\* inspect_file for the top-level call.
ReturnTo == IF Len(frames) = 1 THEN "finish" ELSE "step_out"

\* Entry: one more level of indentation, a fresh skipped-bytes counter.
\* entered is history only: the reader's depth and the length of the
\* indentation buffer at the moment of the call.
InspectLevelEnter ==
  /\ pc = "inspect_level"
  /\ indentation_buffer' = increase_indentation(indentation_buffer)
  /\ frames' = Append(frames, [bytes_skipped_this_level |-> 0, ion_type |-> "none", node |-> 0,
                               entered |-> [depth |-> depth,
                                            indentation |-> Len(indentation_buffer)]])
  /\ pc' = "next"
  /\ UNCHANGED <<input, window, reader, scratch, summarizer_text_buffer, sink, outcome>>

\* reader.next() meets the version marker at the start of the input.
OnIvm ==
  /\ pc = "next"
  /\ nxt = 0
  /\ out' = output(out, "ivm", 0, None, None, SYSTEM_EVENT_INDENTATION, IVM_HEX,
                   Dimmed(IVM_TEXT))
  /\ borrow' = drop(borrow_mut(borrow))
  /\ nxt' = 1
  /\ UNCHANGED <<input, window, pc, frames, parents, cur, indentation_buffer,
                 scratch, summarizer_text_buffer, outcome>>

\* reader.next() meets a local symbol table that imports the current one.
OnSymbolTableAppend ==
  /\ pc = "next"
  /\ nxt \in 1..LevelEnd
  /\ stream[nxt].kind = "append"
  /\ LET text == join_into(clear(summarizer_text_buffer)
                             \o <<"// Local symbol table append: [\"">>, "\", \"",
                           stream[nxt].symbols) \o <<"\"]">>
     IN  /\ summarizer_text_buffer' = text
         /\ out' = output(out, "symtab_append", nxt, None, None,
                          SYSTEM_EVENT_INDENTATION, ELLIPSIS, Dimmed(text))
         /\ borrow' = drop(borrow_mut(borrow))
  /\ nxt' = nxt + 1
  /\ UNCHANGED <<input, window, pc, frames, parents, cur, indentation_buffer,
                 scratch, outcome>>

\* Mutant: no row for a symbol table that lies in the bytes to skip.
OnSymbolTableReset_unless_skipped ==
  /\ pc = "next"
  /\ nxt \in 1..LevelEnd
  /\ stream[nxt].kind = "reset"
  /\ LET symbol_table_len == ION_1_0_SYSTEM_TABLE_LENGTH + Len(stream[nxt].symbols)
         text == IF symbol_table_len > ION_1_0_SYSTEM_TABLE_LENGTH
                   THEN join_into(clear(summarizer_text_buffer)
                                    \o <<"// New local symbol table: [\"">>, "\", \"",
                                  stream[nxt].symbols) \o <<"\"]">>
                   ELSE clear(summarizer_text_buffer)
                          \o <<"// Using system symbol table">>
     IN  /\ summarizer_text_buffer' = text
         /\ out' = IF stream[nxt].value_end <= bytes_to_skip THEN out
                   ELSE output(out, "symtab_reset", nxt, None, None,
                               SYSTEM_EVENT_INDENTATION, ELLIPSIS, Dimmed(text))
         /\ borrow' = drop(borrow_mut(borrow))
  /\ nxt' = nxt + 1
  /\ UNCHANGED <<input, window, pc, frames, parents, cur, indentation_buffer,
                 scratch, outcome>>

\* reader.next() meets a local symbol table that replaces the current one.
OnSymbolTableReset ==
  /\ pc = "next"
  /\ nxt \in 1..LevelEnd
  /\ stream[nxt].kind = "reset"
  /\ LET symbol_table_len == ION_1_0_SYSTEM_TABLE_LENGTH + Len(stream[nxt].symbols)
         text == IF symbol_table_len > ION_1_0_SYSTEM_TABLE_LENGTH
                   THEN join_into(clear(summarizer_text_buffer)
                                    \o <<"// New local symbol table: [\"">>, "\", \"",
                                  stream[nxt].symbols) \o <<"\"]">>
                   ELSE clear(summarizer_text_buffer)
                          \o <<"// Using system symbol table">>
     IN  /\ summarizer_text_buffer' = text
         /\ out' = output(out, "symtab_reset", nxt, None, None,
                          SYSTEM_EVENT_INDENTATION, ELLIPSIS, Dimmed(text))
         /\ borrow' = drop(borrow_mut(borrow))
  /\ nxt' = nxt + 1
  /\ UNCHANGED <<input, window, pc, frames, parents, cur, indentation_buffer,
                 scratch, outcome>>

\* Mutant: next() returns the value without moving past it.
ReaderNextSome_again ==
  /\ pc = "next"
  /\ nxt \in 1..LevelEnd
  /\ stream[nxt].kind = "value"
  /\ cur' = nxt
  /\ nxt' = nxt
  /\ frames' = SetTop([top EXCEPT !.ion_type = stream[nxt].type, !.node = nxt])
  /\ pc' = "loop"
  /\ UNCHANGED <<input, window, parents, indentation_buffer, scratch,
                 summarizer_text_buffer, sink, outcome>>

\* reader.next() returns Some((ion_type, is_null)): the reader parks on the
\* next user value of this level.
ReaderNextSome ==
  /\ pc = "next"
  /\ nxt \in 1..LevelEnd
  /\ stream[nxt].kind = "value"
  /\ cur' = nxt
  /\ nxt' = stream[nxt].last + 1
  /\ frames' = SetTop([top EXCEPT !.ion_type = stream[nxt].type, !.node = nxt])
  /\ pc' = "loop"
  /\ UNCHANGED <<input, window, parents, indentation_buffer, scratch,
                 summarizer_text_buffer, sink, outcome>>

\* reader.next() returns None: the level is exhausted and the loop ends.
ReaderNextNone ==
  /\ pc = "next"
  /\ nxt >= 1
  /\ nxt > LevelEnd
  /\ cur' = 0
  /\ pc' = "return"
  /\ UNCHANGED <<input, window, frames, parents, nxt, indentation_buffer, scratch,
                 summarizer_text_buffer, sink, outcome>>

\* Mutant: a value that ends exactly at bytes_to_skip is not suppressed.
Suppressed_strict == complete_value_range.end < bytes_to_skip

\* The value lies wholly in the bytes to skip.
Suppressed == complete_value_range.end <= bytes_to_skip

\* Mutant: only the header and body are counted.
skipped_length_from_header == value.value_end - value.header_offset

\* complete_value_range.len()
skipped_length == complete_value_range.end - complete_value_range.start

\* The value ends at or before bytes_to_skip: count its bytes and continue.
SkipValue ==
  /\ pc = "loop"
  /\ Suppressed
  /\ frames' = SetTop([top EXCEPT !.bytes_skipped_this_level = @ + skipped_length])
  /\ pc' = "next"
  /\ UNCHANGED <<input, window, reader, indentation_buffer, scratch,
                 summarizer_text_buffer, sink, outcome>>

bytes_processed == saturating_sub(complete_value_range.start, bytes_to_skip)

\* Mutant: the value that starts exactly at the limit is still shown.
LimitExceeded_strict == bytes_processed > limit_bytes

LimitExceeded == bytes_processed >= limit_bytes

\* Mutant: the two messages swapped.
limit_message_swapped ==
  IF depth > 0 THEN <<"// --limit-bytes reached, ending.">>
  ELSE <<"// --limit-bytes reached, stepping out.">>

limit_message ==
  IF depth > 0 THEN <<"// --limit-bytes reached, stepping out.">>
  ELSE <<"// --limit-bytes reached, ending.">>

\* Mutant: the comment ends the whole traversal, not just this call.
LimitReached_ending_traversal ==
  /\ pc = "loop"
  /\ ~Suppressed
  /\ LimitExceeded
  /\ out' = output(out, "limit", cur, None, None, indentation_buffer, ELLIPSIS,
                   Dimmed(limit_message))
  /\ borrow' = drop(borrow_mut(borrow))
  /\ indentation_buffer' = <<>>
  /\ frames' = <<>>
  /\ pc' = "finish"
  /\ UNCHANGED <<input, window, reader, scratch, summarizer_text_buffer, outcome>>

\* limit_bytes have been processed: one comment row, then return.
LimitReached ==
  /\ pc = "loop"
  /\ ~Suppressed
  /\ LimitExceeded
  /\ out' = output(out, "limit", cur, None, None, indentation_buffer, ELLIPSIS,
                   Dimmed(limit_message))
  /\ borrow' = drop(borrow_mut(borrow))
  /\ indentation_buffer' = decrease_indentation(indentation_buffer)
  /\ frames' = SubSeq(frames, 1, Len(frames) - 1)
  /\ pc' = ReturnTo
  /\ UNCHANGED <<input, window, reader, scratch, summarizer_text_buffer, outcome>>

\* Mutant: the counter is reset without a comment row.
ReportSkipped_silent ==
  /\ pc = "loop"
  /\ ~Suppressed
  /\ ~LimitExceeded
  /\ IF top.bytes_skipped_this_level > 0
       THEN /\ text_buffer' = clear(text_buffer)
                               \o <<"// Skipped ", ToString(top.bytes_skipped_this_level),
                                    " bytes of user-level data">>
            /\ frames' = SetTop([top EXCEPT !.bytes_skipped_this_level = 0])
            /\ UNCHANGED sink
       ELSE UNCHANGED <<text_buffer, sink, frames>>
  /\ pc' = "field"
  /\ UNCHANGED <<input, window, reader, indentation_buffer, hex_buffer, color_buffer,
                 text_ion_writer, summarizer_text_buffer, outcome>>

\* The value is to be shown: first report the bytes skipped at this level.
ReportSkipped ==
  /\ pc = "loop"
  /\ ~Suppressed
  /\ ~LimitExceeded
  /\ IF top.bytes_skipped_this_level > 0
       THEN LET text == clear(text_buffer)
                          \o <<"// Skipped ", ToString(top.bytes_skipped_this_level),
                               " bytes of user-level data">>
            IN  /\ text_buffer' = text
                /\ out' = output(out, "skipped", cur, None, None, indentation_buffer,
                                 ELLIPSIS, Dimmed(text))
                /\ borrow' = drop(borrow_mut(borrow))
                /\ frames' = SetTop([top EXCEPT !.bytes_skipped_this_level = 0])
       ELSE UNCHANGED <<text_buffer, sink, frames>>
  /\ pc' = "field"
  /\ UNCHANGED <<input, window, reader, indentation_buffer, hex_buffer, color_buffer,
                 text_ion_writer, summarizer_text_buffer, outcome>>

\* Mutant: the call of write_field_if_present left out.
WriteFieldIfPresent_omitted ==
  /\ pc = "field"
  /\ pc' = "annotations"
  /\ UNCHANGED <<input, window, frames, reader, indentation_buffer, scratch,
                 summarizer_text_buffer, sink, outcome>>

WriteFieldIfPresent ==
  /\ pc = "field"
  /\ IF value.field_id # None
       THEN LET hex == to_hex(clear(hex_buffer), raw_field_id_bytes)
                color == clear(color_buffer) \o <<" // $", ToString(value.field_id[1]), ":">>
                text == clear(text_buffer) \o <<"'", text_for(value.field_id[1]), "':">>
                          \o Dimmed(color)
            IN  /\ hex_buffer' = hex
                /\ color_buffer' = color
                /\ text_buffer' = text
                /\ UNCHANGED text_ion_writer
                /\ out' = output(out, "field", cur, value.field_id_offset,
                                 value.field_id_length, indentation_buffer, hex, text)
                /\ borrow' = drop(borrow_mut(borrow))
       ELSE UNCHANGED <<scratch, sink>>
  /\ pc' = "annotations"
  /\ UNCHANGED <<input, window, frames, reader, indentation_buffer,
                 summarizer_text_buffer, outcome>>

WriteAnnotationsIfPresent ==
  /\ pc = "annotations"
  /\ IF Len(value.annotation_ids) > 0
       THEN LET ids == value.annotation_ids
                hex == to_hex(clear(hex_buffer), raw_annotations_bytes)
                names == [n \in 1..Len(ids) |-> text_for(ids[n])]
                sids == [n \in 1..Len(ids) |-> ToString(ids[n])]
                color == join_into(clear(color_buffer) \o <<" // $">>, "::$", sids)
                           \o <<"::">>
                text == join_into(clear(text_buffer) \o <<"'">>, "'::'", names)
                          \o <<"'::">> \o Dimmed(color)
            IN  /\ hex_buffer' = hex
                /\ color_buffer' = color
                /\ text_buffer' = text
                /\ UNCHANGED text_ion_writer
                /\ out' = output(out, "annotations", cur, value.annotations_offset,
                                 value.annotations_length, indentation_buffer, hex, text)
                /\ borrow' = drop(borrow_mut(borrow))
       ELSE UNCHANGED <<scratch, sink>>
  /\ pc' = "value"
  /\ UNCHANGED <<input, window, frames, reader, indentation_buffer,
                 summarizer_text_buffer, outcome>>

\* The value is a container that format_value opens with its delimiter.
OpensDelimiter == ~value.isNull /\ value.type \in ContainerTypes

\* TextWriter::write_null, write_i64, write_string, write_symbol: the text of
\* the value the reader is parked on.  The white space the writer puts after
\* a value is what trim_end() takes off again.
written_text ==
  IF value.isNull THEN <<NullText(value.type)>>
  ELSE IF value.type = "Integer" THEN <<ToString(raw_value_bytes[1])>>
  ELSE IF value.type = "String" THEN <<StringText(raw_value_bytes)>>
  ELSE <<text_for(raw_value_bytes[1])>>

\* format_value: writer.output() after the value has been written and flushed.
writer_output ==
  IF OpensDelimiter THEN text_ion_writer ELSE text_ion_writer \o written_text

\* format_value: what it leaves in the comment buffer.
format_value_comment ==
  IF ~value.isNull /\ value.type = "Symbol"
    THEN clear(color_buffer) \o <<" // $", ToString(raw_value_bytes[1])>>
    ELSE clear(color_buffer)

\* Mutant: the separator written at every depth.
format_value_text_always_separated ==
  IF OpensDelimiter
    THEN CASE value.type = "List" -> clear(text_buffer) \o <<"[">>
           [] value.type = "SExpression" -> clear(text_buffer) \o <<"(">>
           [] value.type = "Struct" -> clear(text_buffer) \o <<"{">>
    ELSE clear(text_buffer) \o writer_output \o <<",">>
           \o Dimmed(format_value_comment)

\* write_value's text_buffer.clear() and format_value: what they leave in the
\* text buffer.
format_value_text ==
  IF OpensDelimiter
    THEN CASE value.type = "List" -> clear(text_buffer) \o <<"[">>
           [] value.type = "SExpression" -> clear(text_buffer) \o <<"(">>
           [] value.type = "Struct" -> clear(text_buffer) \o <<"{">>
    ELSE clear(text_buffer) \o writer_output
           \o (IF depth > 0 THEN <<",">> ELSE <<>>)
           \o Dimmed(format_value_comment)

\* Mutant: no row for a value that starts in the bytes to skip.
WriteValue_unless_partly_skipped ==
  /\ pc = "value"
  /\ LET text == format_value_text
         header_hex == to_hex(clear(hex_buffer), raw_header_bytes)
         hex == IF value.type \in ContainerTypes THEN header_hex
                ELSE to_hex(header_hex \o <<" ">>, raw_value_bytes)
         length == 1 + value.header_length + value.value_length
     IN  /\ text_buffer' = text
         /\ color_buffer' = format_value_comment
         /\ text_ion_writer' = IF OpensDelimiter THEN text_ion_writer
                               ELSE clear(writer_output)
         /\ hex_buffer' = hex
         /\ out' = IF value.header_offset < bytes_to_skip THEN out
                   ELSE output(out, "value", cur, Some(value.header_offset),
                               Some(length), indentation_buffer, hex, text)
         /\ borrow' = drop(borrow_mut(borrow))
  /\ pc' = IF top.ion_type \in ContainerTypes THEN "step_in" ELSE "next"
  /\ UNCHANGED <<input, window, frames, reader, indentation_buffer,
                 summarizer_text_buffer, outcome>>

\* write_value: the value row; for a container, its opening delimiter.
WriteValue ==
  /\ pc = "value"
  /\ LET text == format_value_text
         header_hex == to_hex(clear(hex_buffer), raw_header_bytes)
         hex == IF value.type \in ContainerTypes THEN header_hex
                ELSE to_hex(header_hex \o <<" ">>, raw_value_bytes)
         length == 1 + value.header_length + value.value_length
     IN  /\ text_buffer' = text
         /\ color_buffer' = format_value_comment
         /\ text_ion_writer' = IF OpensDelimiter THEN text_ion_writer
                               ELSE clear(writer_output)
         /\ hex_buffer' = hex
         /\ out' = output(out, "value", cur, Some(value.header_offset), Some(length),
                          indentation_buffer, hex, text)
         /\ borrow' = drop(borrow_mut(borrow))
  /\ pc' = IF top.ion_type \in ContainerTypes THEN "step_in" ELSE "next"
  /\ UNCHANGED <<input, window, frames, reader, indentation_buffer,
                 summarizer_text_buffer, outcome>>

\* reader.step_in(): into the container the reader is parked on.
StepIn ==
  /\ pc = "step_in"
  /\ parents' = Append(parents, cur)
  /\ nxt' = cur + 1
  /\ cur' = 0
  /\ pc' = "inspect_level"
  /\ UNCHANGED <<input, window, frames, indentation_buffer, scratch,
                 summarizer_text_buffer, sink, outcome>>

\* The loop has ended: decrease the indentation and return Ok.
InspectLevelReturn ==
  /\ pc = "return"
  /\ indentation_buffer' = decrease_indentation(indentation_buffer)
  /\ frames' = SubSeq(frames, 1, Len(frames) - 1)
  /\ pc' = ReturnTo
  /\ UNCHANGED <<input, window, reader, scratch, summarizer_text_buffer, sink, outcome>>

\* reader.step_out(): back to the parent level, past the rest of the container.
StepOut ==
  /\ pc = "step_out"
  /\ nxt' = stream[parents[Len(parents)]].last + 1
  /\ parents' = SubSeq(parents, 1, Len(parents) - 1)
  /\ cur' = 0
  /\ pc' = "close"
  /\ UNCHANGED <<input, window, frames, indentation_buffer, scratch,
                 summarizer_text_buffer, sink, outcome>>

\* Mutant: no closing delimiter once the limit has been reached.
WriteClosingDelimiter_unless_limit ==
  /\ pc = "close"
  /\ out' = IF \E j \in 1..Len(out) : out[j].site = "limit" THEN out
            ELSE output(out, "close", top.node, None, None, indentation_buffer, <<>>,
                        <<closing_delimiter_for(top.ion_type)>>)
  /\ borrow' = drop(borrow_mut(borrow))
  /\ pc' = "next"
  /\ UNCHANGED <<input, window, frames, reader, indentation_buffer, scratch,
                 summarizer_text_buffer, outcome>>

\* The container's closing delimiter.
WriteClosingDelimiter ==
  /\ pc = "close"
  /\ out' = output(out, "close", top.node, None, None, indentation_buffer, <<>>,
                   <<closing_delimiter_for(top.ion_type)>>)
  /\ borrow' = drop(borrow_mut(borrow))
  /\ pc' = "next"
  /\ UNCHANGED <<input, window, frames, reader, indentation_buffer, scratch,
                 summarizer_text_buffer, outcome>>

\* The top-level inspect_level call has returned Ok to inspect_file.
InspectFileReturn ==
  /\ pc = "finish"
  /\ result' = "ok"
  /\ error' = error
  /\ pc' = "done"
  /\ UNCHANGED <<input, window, frames, reader, indentation_buffer, scratch,
                 summarizer_text_buffer, sink>>

\* The reader reports an error from next(), step_in(), step_out() or, inside
\* format_value, from reading a scalar: `?` hands it to the caller.  write_value
\* and format_value have cleared their buffers by then.
DecodeError ==
  /\ pc \in {"next", "step_in", "step_out", "value"}
  /\ pc = "value" => ~value.isNull /\ value.type \notin ContainerTypes
  /\ error' = Some([kind |-> "decode", message |-> <<"IonError in ", pc>>])
  /\ IF pc = "value"
       THEN text_buffer' = clear(text_buffer) /\ color_buffer' = clear(color_buffer)
       ELSE UNCHANGED <<text_buffer, color_buffer>>
  /\ pc' = "propagate"
  /\ UNCHANGED <<input, window, frames, reader, indentation_buffer, hex_buffer,
                 text_ion_writer, summarizer_text_buffer, sink, result>>

\* Mutant: a container is closed on the way out.
PropagateError_closing ==
  /\ pc = "propagate"
  /\ frames # <<>>
  /\ frames' = SubSeq(frames, 1, Len(frames) - 1)
  /\ out' = IF Len(frames) > 1
              THEN output(out, "close", frames[Len(frames) - 1].node, None, None,
                          indentation_buffer, <<>>,
                          <<closing_delimiter_for(frames[Len(frames) - 1].ion_type)>>)
              ELSE out
  /\ UNCHANGED <<input, window, pc, reader, indentation_buffer, scratch,
                 summarizer_text_buffer, borrow, outcome>>

\* `?`: the inspect_level call on top returns the error it was handed, and
\* nothing else happens in it.
PropagateError ==
  /\ pc = "propagate"
  /\ frames # <<>>
  /\ frames' = SubSeq(frames, 1, Len(frames) - 1)
  /\ UNCHANGED <<input, window, pc, reader, indentation_buffer, scratch,
                 summarizer_text_buffer, sink, outcome>>

\* `?` in inspect_file and in run: the run fails with the error.
InspectFileFails ==
  /\ pc = "propagate"
  /\ frames = <<>>
  /\ result' = "err"
  /\ error' = error
  /\ pc' = "done"
  /\ UNCHANGED <<input, window, frames, reader, indentation_buffer, scratch,
                 summarizer_text_buffer, sink>>

\* Mutant: the Err of output() is dropped and the reader goes on.
expect_swallowed(message) ==
  /\ error' = Some([kind |-> "panic", message |-> message])
  /\ UNCHANGED <<pc, result>>

\* Result::expect on an Err: a panic with the message.  No code of the
\* program catches it, so the program ends there.
expect(message) ==
  /\ error' = Some([kind |-> "panic", message |-> message])
  /\ result' = "panic"
  /\ pc' = "done"

\* on_ivm, with an output() that returns Err.  The row it was writing is not
\* counted as written, whatever part of it had reached the output.
OnIvmFails ==
  /\ pc = "next"
  /\ nxt = 0
  /\ borrow' = drop(borrow_mut(borrow))
  /\ expect(<<"output() failure from on_ivm()">>)
  /\ nxt' = 1
  /\ UNCHANGED <<input, window, frames, parents, cur, indentation_buffer,
                 scratch, summarizer_text_buffer, out>>

\* on_symbol_table_append, with an output() that returns Err.
OnSymbolTableAppendFails ==
  /\ pc = "next"
  /\ nxt \in 1..LevelEnd
  /\ stream[nxt].kind = "append"
  /\ summarizer_text_buffer' =
       join_into(clear(summarizer_text_buffer)
                   \o <<"// Local symbol table append: [\"">>, "\", \"",
                 stream[nxt].symbols) \o <<"\"]">>
  /\ borrow' = drop(borrow_mut(borrow))
  /\ expect(<<"output() failure from on_symbol_table_append()">>)
  /\ nxt' = nxt + 1
  /\ UNCHANGED <<input, window, frames, parents, cur, indentation_buffer,
                 scratch, out>>

\* on_symbol_table_reset, with an output() that returns Err.
OnSymbolTableResetFails ==
  /\ pc = "next"
  /\ nxt \in 1..LevelEnd
  /\ stream[nxt].kind = "reset"
  /\ LET symbol_table_len == ION_1_0_SYSTEM_TABLE_LENGTH + Len(stream[nxt].symbols)
     IN  summarizer_text_buffer' =
           IF symbol_table_len > ION_1_0_SYSTEM_TABLE_LENGTH
             THEN join_into(clear(summarizer_text_buffer)
                              \o <<"// New local symbol table: [\"">>, "\", \"",
                            stream[nxt].symbols) \o <<"\"]">>
             ELSE clear(summarizer_text_buffer) \o <<"// Using system symbol table">>
  /\ borrow' = drop(borrow_mut(borrow))
  /\ expect(<<"output() failure from on_symbol_table_reset()">>)
  /\ nxt' = nxt + 1
  /\ UNCHANGED <<input, window, frames, parents, cur, indentation_buffer,
                 scratch, out>>

Next ==
  \/ Run
  \/ InspectFile
  \/ InspectLevelEnter
  \/ OnIvm
  \/ OnSymbolTableAppend
  \/ OnSymbolTableReset
  \/ ReaderNextSome
  \/ ReaderNextNone
  \/ SkipValue
  \/ LimitReached
  \/ ReportSkipped
  \/ WriteFieldIfPresent
  \/ WriteAnnotationsIfPresent
  \/ WriteValue
  \/ StepIn
  \/ InspectLevelReturn
  \/ StepOut
  \/ WriteClosingDelimiter
  \/ InspectFileReturn

Spec == Init /\ [][Next]_vars

\* The same runs, and those the reader cuts short with an error.
NextFaulty == Next \/ DecodeError \/ PropagateError \/ InspectFileFails
SpecFaulty == Init /\ [][NextFaulty]_vars

\* The program is one thread that runs until run returns: a step that can be
\* taken is taken.
SpecLive == SpecFaulty /\ WF_vars(NextFaulty)

\* The runs of Spec, and those in which the output fails under one of the
\* system event handlers.
NextHandlerFaulty ==
  Next \/ OnIvmFails \/ OnSymbolTableAppendFails \/ OnSymbolTableResetFails
SpecHandlerFaulty == Init /\ [][NextHandlerFaulty]_vars

(***************************************************************************)
(* The table writer on its own: to_hex and output applied to byte strings  *)
(* of every length up to MaxHexBytes, as write_value and its siblings do.  *)
(***************************************************************************)
\* n consecutive byte values from first on, wrapping at 256.
BytesFrom(first, n) == [k \in 1..n |-> (first + k - 1) % 256]
TableBytes == {BytesFrom(first, n) : first \in {0, 250}, n \in 0..MaxHexBytes}
\* The indentation of the first levels.
Indentations == {<<>>, LEVEL_INDENTATION, LEVEL_INDENTATION \o LEVEL_INDENTATION}

InitTable ==
  /\ ion_data \in TableBytes
  /\ stream = <<>>
  /\ args = [skip |-> 0, limit |-> 0, input |-> "data.10n"]
  /\ bytes_to_skip = 0
  /\ limit_bytes = USIZE_MAX
  /\ pc = "to_hex"
  /\ frames = <<>>
  /\ parents = <<>>
  /\ cur = 0
  /\ nxt = 0
  /\ indentation_buffer \in Indentations
  /\ hex_buffer = <<>>
  /\ text_buffer = <<"text">>
  /\ color_buffer = <<>>
  /\ text_ion_writer = <<>>
  /\ summarizer_text_buffer = <<>>
  /\ out = <<>>
  /\ borrow = 0
  /\ result = "running"
  /\ error = None

\* hex_buffer.clear(); to_hex(&mut hex_buffer, bytes)
TableToHex ==
  /\ pc = "to_hex"
  /\ hex_buffer' = to_hex(clear(hex_buffer), ion_data)
  /\ pc' = "output"
  /\ UNCHANGED <<input, window, frames, reader, indentation_buffer, text_buffer,
                 color_buffer, text_ion_writer, summarizer_text_buffer, sink, outcome>>

\* output(): with an offset and a length, or without them.
TableOutput ==
  /\ pc = "output"
  /\ \E position \in {None, Some(Len(ion_data))} :
       out' = output(out, "table", 0, position, position, indentation_buffer,
                     hex_buffer, text_buffer)
  /\ borrow' = drop(borrow_mut(borrow))
  /\ pc' = "done"
  /\ UNCHANGED <<input, window, frames, reader, indentation_buffer, scratch,
                 summarizer_text_buffer, outcome>>

NextTable == TableToHex \/ TableOutput
SpecTable == InitTable /\ [][NextTable]_vars


(***************************************************************************)
(* Vocabulary of the properties: the stream as laid out in the input, and  *)
(* the rows written so far.                                                *)
(***************************************************************************)
\* The user values of the stream, at every depth.
Values == {i \in 1..Len(stream) : stream[i].kind = "value"}
\* The complete byte range of value i: field id and annotations included.
RangeStart(i) ==
  stream[i].header_offset
    - (IF stream[i].annotations_length = None THEN 0 ELSE stream[i].annotations_length[1])
    - (IF stream[i].field_id_length = None THEN 0 ELSE stream[i].field_id_length[1])
RangeEnd(i) == stream[i].value_end
RangeLen(i) == RangeEnd(i) - RangeStart(i)
IsContainer(i) == stream[i].type \in ContainerTypes
InStruct(i) == stream[i].parent # 0 /\ stream[stream[i].parent].type = "Struct"
HasAnnotations(i) == stream[i].annotation_ids # <<>>

\* The sites of the rows that display a value.
ValueSites == {"field", "annotations", "value"}
Rows == 1..Len(out)
RowsOf(site, i) == {j \in Rows : out[j].site = site /\ out[j].node = i}
\* The run has ended without an error.
Finished == pc = "done" /\ result = "ok"

\* Value i is displayed completely: one row for each of its parts.
ShownWhole(i) ==
  /\ Cardinality(RowsOf("value", i)) = 1
  /\ InStruct(i) => Cardinality(RowsOf("field", i)) = 1
  /\ HasAnnotations(i) => Cardinality(RowsOf("annotations", i)) = 1

\* Value i has at least one byte in the window.
InWindow(i) ==
  /\ RangeEnd(i) > bytes_to_skip
  /\ RangeStart(i) - bytes_to_skip < limit_bytes

(***************************************************************************)
(* C1.  In a run that ends without an error, every value, at any depth,    *)
(* with at least one byte of its complete range inside the window          *)
(* [bytes_to_skip, bytes_to_skip + limit_bytes) is shown whole: field-id   *)
(* row if it has a field id, annotations row if it has annotations, value  *)
(* row.  Values that straddle either boundary are among them.              *)
(***************************************************************************)
C1_InWindowShownWhole ==
  Finished => \A i \in Values : InWindow(i) => ShownWhole(i)

\* A finished run that showed a value straddling the skip boundary and a
\* nested value straddling the limit boundary.
C1_Witness ==
  /\ Finished
  /\ args.limit > 0
  /\ \E i \in Values :
       /\ RangeStart(i) < bytes_to_skip /\ bytes_to_skip < RangeEnd(i)
       /\ ShownWhole(i)
  /\ \E i \in Values :
       /\ stream[i].depth > 0
       /\ RangeStart(i) < bytes_to_skip + limit_bytes
       /\ bytes_to_skip + limit_bytes < RangeEnd(i)
       /\ ShownWhole(i)

(***************************************************************************)
(* C2.  Every value that has a field-id, annotations or value row has a    *)
(* complete range that ends after bytes_to_skip, and no container whose    *)
(* range ends at or before bytes_to_skip is ever stepped into.             *)
(***************************************************************************)
C2_EmittedEndsAfterSkip ==
  /\ \A j \in Rows : out[j].site \in ValueSites => RangeEnd(out[j].node) > bytes_to_skip
  /\ \A n \in 1..Len(parents) : RangeEnd(parents[n]) > bytes_to_skip

\* A finished run that passed over a container with children, all of it in
\* the bytes to skip, and showed a later value.
C2_Witness ==
  /\ Finished
  /\ \E i \in Values :
       /\ stream[i].last > i
       /\ RangeEnd(i) <= bytes_to_skip
       /\ \E j \in Rows : out[j].site = "value" /\ out[j].node > stream[i].last

(***************************************************************************)
(* C3.  The number in a "Skipped N bytes of user-level data" row is the    *)
(* sum of the complete-range lengths of the siblings of the value it       *)
(* precedes that lie in the bytes to skip (the values the same             *)
(* inspect_level call suppressed), and the call's counter is zero once it  *)
(* has written the row.                                                    *)
(***************************************************************************)
RECURSIVE SumOfRanges(_)
SumOfRanges(S) ==
  IF S = {} THEN 0
  ELSE LET c == CHOOSE x \in S : TRUE IN RangeLen(c) + SumOfRanges(S \ {c})

\* The siblings of value i that end at or before bytes_to_skip.
SuppressedSiblings(i) ==
  {c \in Values : stream[c].parent = stream[i].parent /\ RangeEnd(c) <= bytes_to_skip}

\* The container whose children the f-th active inspect_level call reads.
FrameContainer(f) == IF f = 1 THEN 0 ELSE parents[f - 1]

C3_SkipCommentCountsSiblings ==
  /\ \A j \in Rows :
       out[j].site = "skipped" =>
         out[j].text_column =
           Dimmed(<<"// Skipped ", ToString(SumOfRanges(SuppressedSiblings(out[j].node))),
                    " bytes of user-level data">>)
  /\ \A f \in 1..Len(frames) :
       (\E j \in Rows : /\ out[j].site = "skipped"
                        /\ stream[out[j].node].parent = FrameContainer(f))
         => frames[f].bytes_skipped_this_level = 0

\* A comment that adds up two suppressed siblings.
C3_Witness ==
  \E j \in Rows :
    /\ out[j].site = "skipped"
    /\ Cardinality(SuppressedSiblings(out[j].node)) >= 2

(***************************************************************************)
(* C4.  When the loop is on a value that is not suppressed and whose start *)
(* minus bytes_to_skip (saturating at 0) is at least limit_bytes, it       *)
(* writes a limit comment row; and once a limit comment row is written, no *)
(* later step writes a field-id, annotations or value row.                 *)
(***************************************************************************)
AtLimit(i) ==
  /\ RangeEnd(i) > bytes_to_skip
  /\ (IF RangeStart(i) > bytes_to_skip THEN RangeStart(i) - bytes_to_skip ELSE 0)
       >= limit_bytes

C4_LimitStopsValues ==
  [][ /\ (pc = "loop" /\ AtLimit(cur)) =>
           /\ Len(out') = Len(out) + 1
           /\ out'[Len(out')].site = "limit"
           /\ out'[Len(out')].node = cur
      /\ (\E j \in Rows : out[j].site = "limit") =>
           \A j \in (Len(out) + 1)..Len(out') : out'[j].site \notin ValueSites
    ]_vars

\* A finished run that stopped at the limit inside a container with values
\* of the stream still to come.
C4_Witness ==
  /\ Finished
  /\ \E j \in Rows :
       /\ out[j].site = "limit"
       /\ stream[out[j].node].depth > 0
       /\ \E i \in Values : i > stream[stream[out[j].node].parent].last
                            /\ RowsOf("value", i) = {}


(***************************************************************************)
(* C5.  As claimed: once a "stepping out" limit comment has been written,  *)
(* no closing-delimiter row follows it.  The code does write them:         *)
(* inspect_level returns Ok at the limit and its caller steps out and      *)
(* closes the container as after any other return.                         *)
(***************************************************************************)
SteppingOut(j) ==
  /\ out[j].site = "limit"
  /\ out[j].text_column = Dimmed(<<"// --limit-bytes reached, stepping out.">>)
Ending(j) ==
  /\ out[j].site = "limit"
  /\ out[j].text_column = Dimmed(<<"// --limit-bytes reached, ending.">>)

C5_NoCloseAfterSteppingOut ==
  \A j \in Rows, j2 \in Rows : (SteppingOut(j) /\ j < j2) => out[j2].site # "close"

RECURSIVE Ancestors(_)
Ancestors(i) ==
  IF stream[i].parent = 0 THEN {}
  ELSE {stream[i].parent} \cup Ancestors(stream[i].parent)

\* C5, amended.  In a run that ends without an error, every container that
\* encloses the value at which a "stepping out" comment was written is
\* closed: exactly one closing-delimiter row for it follows the comment.
C5_EnclosingContainersClosed ==
  Finished =>
    \A j \in Rows :
      SteppingOut(j) =>
        \A a \in Ancestors(out[j].node) :
          Cardinality({j2 \in RowsOf("close", a) : j2 > j}) = 1

\* A finished run that reached the limit two containers deep.
C5_Witness ==
  /\ Finished
  /\ \E j \in Rows : SteppingOut(j) /\ stream[out[j].node].depth = 2

(***************************************************************************)
(* C6.  A limit comment row reads "stepping out." exactly when the value   *)
(* the reader stopped at is nested (depth > 0) and "ending." exactly when  *)
(* it is at the top level; it has no offset, no length, and "..." as its   *)
(* hex column.                                                             *)
(***************************************************************************)
C6_LimitMessageMatchesDepth ==
  \A j \in Rows :
    out[j].site = "limit" =>
      /\ out[j].offset = None
      /\ out[j].length = None
      /\ out[j].hex_column = ELLIPSIS
      /\ (SteppingOut(j) \/ Ending(j))
      /\ SteppingOut(j) <=> stream[out[j].node].depth > 0
      /\ Ending(j) <=> stream[out[j].node].depth = 0

\* A run that wrote both messages.
C6_Witness ==
  /\ \E j \in Rows : SteppingOut(j)
  /\ \E j \in Rows : Ending(j)

(***************************************************************************)
(* C7.  With --skip-bytes 0 and --limit-bytes 0, a run that ends without   *)
(* an error has written a value row for every value of the stream, at      *)
(* every depth, and no skip or limit comment row.                          *)
(***************************************************************************)
C7_UnboundedShowsEverything ==
  (Finished /\ args.skip = 0 /\ args.limit = 0) =>
    /\ \A i \in Values : Cardinality(RowsOf("value", i)) = 1
    /\ \A j \in Rows : out[j].site \notin {"skipped", "limit"}

\* Such a run over a stream with a value two containers deep.
C7_Witness ==
  /\ Finished
  /\ args.skip = 0
  /\ args.limit = 0
  /\ \E i \in Values : stream[i].depth = 2 /\ RowsOf("value", i) # {}

(***************************************************************************)
(* C8.  The rows of a displayed value are adjacent and in the order        *)
(* field-id row (exactly when the value is a member of a struct),          *)
(* annotations row (exactly when it has annotations), value row; no other  *)
(* row comes between them.                                                 *)
(***************************************************************************)
\* The sites of the rows value i is displayed with, in order.
ExpectedSites(i) ==
  (IF InStruct(i) THEN <<"field">> ELSE <<>>)
    \o (IF HasAnnotations(i) THEN <<"annotations">> ELSE <<>>)
    \o <<"value">>

C8_FieldAnnotationsValueOrder ==
  \A j \in Rows :
    LET i == out[j].node
    IN  /\ out[j].site = "value" =>
             LET want == ExpectedSites(i)
                 n == Len(want)
             IN  /\ j >= n
                 /\ \A m \in 1..n : /\ out[j - n + m].site = want[m]
                                    /\ out[j - n + m].node = i
                 /\ \A j2 \in Rows : (out[j2].site \in ValueSites /\ out[j2].node = i)
                                       => j2 \in (j - n + 1)..j
        /\ out[j].site = "field" => InStruct(i)
        /\ out[j].site = "annotations" => HasAnnotations(i)
        /\ (out[j].site \in {"field", "annotations"} /\ j < Len(out)) =>
             /\ out[j + 1].node = i
             /\ out[j + 1].site \in ValueSites

\* A value displayed with all three rows.
C8_Witness ==
  \E j \in Rows :
    /\ out[j].site = "value"
    /\ ExpectedSites(out[j].node) = <<"field", "annotations", "value">>

(***************************************************************************)
(* C9.  The indentation of every row of the traversal (field-id,           *)
(* annotations, value, closing delimiter, skip comment, limit comment) is  *)
(* two spaces for each level of nesting of the value the row belongs to:   *)
(* none at the top level, and a container's closing delimiter is indented  *)
(* as its opening row.                                                     *)
(***************************************************************************)
TraversalSites == ValueSites \cup {"close", "skipped", "limit"}

C9_IndentationIsDepth ==
  /\ \A j \in Rows :
       out[j].site \in TraversalSites =>
         /\ Len(out[j].indentation) = stream[out[j].node].depth * Len(LEVEL_INDENTATION)
         /\ \A n \in 1..Len(out[j].indentation) : out[j].indentation[n] = " "
  /\ \A j \in Rows, j2 \in Rows :
       (out[j].site = "value" /\ out[j2].site = "close" /\ out[j].node = out[j2].node)
         => out[j].indentation = out[j2].indentation

\* A comment row two levels deep, below a value row one level deep, and
\* the container of that level closed.
C9_Witness ==
  /\ \E j \in Rows : out[j].site \in {"skipped", "limit"} /\ stream[out[j].node].depth = 2
  /\ \E j \in Rows : out[j].site = "value" /\ stream[out[j].node].depth = 1
  /\ \E j \in Rows : out[j].site = "close" /\ stream[out[j].node].depth = 1

(***************************************************************************)
(* C10.  As claimed: the text of a value row carries the "," separator     *)
(* exactly when the value is nested (depth > 0), container-opening rows    *)
(* included.  format_value returns before the separator is written when    *)
(* it writes an opening delimiter.                                         *)
(***************************************************************************)
\* The separator follows the value's text (and precedes its comment).
HasSeparator(j) == Len(out[j].text_column) >= 2 /\ out[j].text_column[2] = ","
\* The row shows the opening delimiter of a container.
OpensContainer(j) == IsContainer(out[j].node) /\ ~stream[out[j].node].isNull

C10_SeparatorOnEveryNestedRow ==
  \A j \in Rows :
    out[j].site = "value" => (HasSeparator(j) <=> stream[out[j].node].depth > 0)

\* C10, amended.  The text of a value row carries the separator exactly
\* when the value is nested and the row is not the opening delimiter of a
\* container: scalars and typed nulls at depth > 0 carry it, the last
\* sibling included; opening delimiters and rows at depth 0 never do.
C10_SeparatorOnNestedScalars ==
  \A j \in Rows :
    out[j].site = "value" =>
      (HasSeparator(j) <=> (stream[out[j].node].depth > 0 /\ ~OpensContainer(j)))

\* A nested opening delimiter without the separator, and a last sibling and
\* a top-level scalar with and without it.
C10_Witness ==
  /\ \E j \in Rows : /\ out[j].site = "value"
                     /\ OpensContainer(j)
                     /\ stream[out[j].node].depth > 0
                     /\ ~HasSeparator(j)
  /\ \E j \in Rows : /\ out[j].site = "value"
                     /\ ~IsContainer(out[j].node)
                     /\ stream[out[j].node].depth > 0
                     /\ stream[stream[out[j].node].parent].last = out[j].node
                     /\ HasSeparator(j)

(***************************************************************************)
(* C11.  As claimed: in a run that ends without an error, every container  *)
(* that is displayed, typed null or not, has the opening delimiter of its  *)
(* type as the text of its value row; the rows of its children follow,     *)
(* one level deeper; then comes exactly one closing-delimiter row of the   *)
(* same type, with an empty hex column and no offset or length, at the     *)
(* indentation of the opening row.                                         *)
(***************************************************************************)
OpeningDelimiter(type) ==
  CASE type = "List" -> "["
    [] type = "SExpression" -> "("
    [] type = "Struct" -> "{"
\* The items inside container i, at any depth.
Descendants(i) == (i + 1)..stream[i].last
\* Row k closes the container that row j opens.
Closes(k, j) ==
  /\ k > j
  /\ out[k].text_column = <<closing_delimiter_for(stream[out[j].node].type)>>
  /\ out[k].hex_column = <<>>
  /\ out[k].offset = None
  /\ out[k].length = None
  /\ out[k].indentation = out[j].indentation

C11_ContainersDelimited ==
  Finished =>
    \A i \in Values : \A j \in RowsOf("value", i) :
      IsContainer(i) =>
        /\ out[j].text_column = <<OpeningDelimiter(stream[i].type)>>
        /\ Cardinality(RowsOf("close", i)) = 1
        /\ \A k \in RowsOf("close", i) :
             /\ Closes(k, j)
             /\ \A r \in Rows :
                  out[r].node \in Descendants(i) =>
                    /\ j < r /\ r < k
                    /\ Len(out[r].indentation)
                         >= Len(out[j].indentation) + Len(LEVEL_INDENTATION)

(***************************************************************************)
(* C12.  The bytes a row shows are read back from the hex cells of its     *)
(* lines.  As claimed (header_length taken as the length of the whole      *)
(* header, type descriptor included): the value row of every displayed     *)
(* value shows the bytes of the input from header_offset to the end of the *)
(* value, and its Length column is the number of those bytes.              *)
(***************************************************************************)
HexDigitValue(c) == (CHOOSE d \in 1..16 : HexDigits[d] = c) - 1
\* The bytes a string of hex shows: two digits a byte, spaces between.
RECURSIVE BytesShown(_)
BytesShown(hex) ==
  IF hex = <<>> THEN <<>>
  ELSE IF Head(hex) = " " THEN BytesShown(Tail(hex))
  ELSE <<HexDigitValue(hex[1]) * 16 + HexDigitValue(hex[2])>>
         \o BytesShown(SubSeq(hex, 3, Len(hex)))
\* The hex cells of the lines of row j, first line first.
RECURSIVE HexCells(_, _)
HexCells(j, l) ==
  IF l > Len(out[j].lines) THEN <<>>
  ELSE out[j].lines[l].hex \o HexCells(j, l + 1)
RowBytes(j) == BytesShown(HexCells(j, 1))
\* The bytes of the input in [from, to).
InputBytes(from, to) == SubSeq(ion_data, from + 1, to)
\* Where the header of value i ends: after the descriptor and the length field.
HeaderEnd(i) == stream[i].header_offset + 1 + stream[i].header_length

C12_HexIsWholeValue ==
  \A i \in Values : \A j \in RowsOf("value", i) :
    /\ RowBytes(j) = InputBytes(stream[i].header_offset, stream[i].value_end)
    /\ out[j].length = Some(stream[i].value_end - stream[i].header_offset)

(***************************************************************************)
(* C12, amended.  The value row of a scalar shows the whole value: header  *)
(* and body.  The value row of a container shows the container's header    *)
(* only (its body is shown by the rows of its children).  In both cases    *)
(* the Offset column is header_offset and the Length column is the length  *)
(* of the whole value, header and body.                                    *)
(***************************************************************************)
C12_HexIsHeaderAndScalarBody ==
  \A i \in Values : \A j \in RowsOf("value", i) :
    /\ RowBytes(j) = IF IsContainer(i)
                       THEN InputBytes(stream[i].header_offset, HeaderEnd(i))
                       ELSE InputBytes(stream[i].header_offset, stream[i].value_end)
    /\ out[j].offset = Some(stream[i].header_offset)
    /\ out[j].length = Some(stream[i].value_end - stream[i].header_offset)

\* Shown: a container with a body, and a scalar whose header has a length
\* field and whose hex takes two lines.
C12_Witness ==
  /\ \E i \in Values : /\ IsContainer(i)
                       /\ stream[i].value_length > 0
                       /\ RowsOf("value", i) # {}
  /\ \E i \in Values : \E j \in RowsOf("value", i) :
       /\ ~IsContainer(i)
       /\ stream[i].header_length > 0
       /\ Len(out[j].lines) = 2

(***************************************************************************)
(* C13.  In a run without a limit that ends without an error, whatever     *)
(* bytes_to_skip is: the version marker and every local symbol table of    *)
(* the stream (append or reset) has exactly one structural row; these rows *)
(* are in stream order, after the rows of the values that precede the      *)
(* table in the stream and before the rows of the values that follow it.   *)
(***************************************************************************)
SymbolTables == {i \in 1..Len(stream) : stream[i].kind \in {"append", "reset"}}
StructuralSite(i) == IF stream[i].kind = "append" THEN "symtab_append" ELSE "symtab_reset"
StructuralSites == {"ivm", "symtab_append", "symtab_reset"}
StructuralRows == {j \in Rows : out[j].site \in StructuralSites}

C13_StructuralRowsSurviveSkip ==
  (Finished /\ args.limit = 0) =>
    /\ Cardinality({j \in Rows : out[j].site = "ivm"}) = 1
    /\ out[2].site = "ivm"
    /\ \A i \in SymbolTables :
         /\ Cardinality({j \in StructuralRows : out[j].node = i}) = 1
         /\ \A j \in StructuralRows :
              out[j].node = i =>
                /\ out[j].site = StructuralSite(i)
                /\ \A r \in Rows :
                     out[r].node # 0 =>
                       /\ out[r].node < i => r < j
                       /\ out[r].node > i => r > j
    /\ \A j \in StructuralRows : out[j].site # "ivm" => out[j].node \in SymbolTables

\* A symbol table is reported although every user value is suppressed.
C13_Witness ==
  /\ Finished
  /\ args.limit = 0
  /\ Values # {}
  /\ \A i \in Values : RangeEnd(i) <= bytes_to_skip /\ RowsOf("value", i) = {}
  /\ \E i \in SymbolTables : \E v \in Values : v < i
  /\ \E j \in StructuralRows : out[j].site # "ivm"

(***************************************************************************)
(* C14.  Whenever a field-id, annotations or value row of a value at depth *)
(* d > 0 is written, the d containers that enclose the value have their    *)
(* opening rows before it, and none of them has a closing row before it.   *)
(***************************************************************************)
C14_EnclosingContainersShown ==
  \A j \in Rows :
    (out[j].site \in ValueSites /\ stream[out[j].node].depth > 0) =>
      /\ Cardinality(Ancestors(out[j].node)) = stream[out[j].node].depth
      /\ \A a \in Ancestors(out[j].node) :
           /\ \E k \in RowsOf("value", a) : k < j
           /\ \A k \in RowsOf("close", a) : k > j

\* A value at depth 2 is shown although both containers around it begin in
\* the bytes to skip.
C14_Witness ==
  \E i \in Values :
    /\ stream[i].depth = 2
    /\ RowsOf("value", i) # {}
    /\ \A a \in Ancestors(i) : RangeStart(a) < bytes_to_skip

(***************************************************************************)
(* C15.  As claimed: every structural row (version marker, symbol table    *)
(* append, symbol table reset) has no offset, no length, no indentation,   *)
(* and the filler "..." as its hex column.                                 *)
(***************************************************************************)
NoPosition(j) ==
  /\ out[j].offset = None
  /\ out[j].length = None
  /\ out[j].indentation = <<>>
  /\ out[j].lines[1].offset = None
  /\ out[j].lines[1].length = None

BeginsWithMarker == Len(ion_data) >= 4 /\ SubSeq(ion_data, 1, 4) = <<224, 1, 0, 234>>
HeaderRows == {j \in Rows : out[j].site = "header"}
\* The message of the error names the input file.
NamesInput(e) == \E k \in 1..Len(e.message) : e.message[k] = args.input

C16_MarkerChecked ==
  /\ ~BeginsWithMarker =>
       /\ out = <<>>
       /\ frames = <<>> /\ nxt = 0
       /\ pc \in {"run", "inspect_file", "done"}
       /\ pc = "done" => /\ result = "err"
                         /\ error # None
                         /\ NamesInput(error[1])
  /\ BeginsWithMarker =>
       /\ Cardinality(HeaderRows) <= 1
       /\ out # <<>> => out[1].site = "header"
       /\ pc \notin {"run", "inspect_file"} => Cardinality(HeaderRows) = 1
       /\ error = None

\* inspect_file has refused an input that differs from the marker in its
\* fourth byte only.
C16_Witness ==
  /\ pc = "done"
  /\ result = "err"
  /\ Len(ion_data) > 4
  /\ SubSeq(ion_data, 1, 3) = <<224, 1, 0>>

(***************************************************************************)
(* C17.  Once the reader has reported an error (from next, step_in,        *)
(* step_out or a scalar read, at any depth), every step hands the same     *)
(* error on: the active inspect_level calls return one after the other,    *)
(* no row is written any more (the rows written before stay), and the run  *)
(* ends in failure with that error.                                        *)
(***************************************************************************)
C17_ErrorPropagates ==
  [][ /\ (error = None /\ error' # None) => out' = out
      /\ error # None =>
           /\ error' = error
           /\ out' = out
           /\ Len(frames') <= Len(frames)
           /\ result' \in {"running", "err"}
           /\ pc' \in {"propagate", "done"}
      /\ (pc' = "done" /\ error' # None) => (result' = "err" /\ frames' = <<>>) ]_vars

\* The run has failed with a reader error that struck inside a container:
\* the container's opening row is on the output, a closing row is not.
C17_Witness ==
  /\ pc = "done"
  /\ result = "err"
  /\ error # None
  /\ error[1].kind = "decode"
  /\ \E i \in Values : /\ IsContainer(i)
                       /\ RowsOf("value", i) # {}
                       /\ RowsOf("close", i) = {}
                       /\ \E c \in Values : stream[c].parent = i /\ RowsOf("value", c) # {}

(***************************************************************************)
(* C18.  For every call of output() with a hex string of n characters: it  *)
(* writes max(1, ceil(n / 24)) lines; the hex cell of every line is 24     *)
(* characters wide; a cell holds at most 8 two-digit groups, each followed *)
(* by a space or by the end of the cell, and after the last group only     *)
(* spaces; the cells, one after the other, begin with the hex string and   *)
(* go on with spaces only.  The first line has the offset, the length and  *)
(* the indentation followed by the text; the other lines have neither      *)
(* offset nor length nor text.                                             *)
(***************************************************************************)
CeilDiv(n, d) == (n + d - 1) \div d
\* A hex cell: groups of two digits at 1-2, 4-5, ..., 22-23, spaces between
\* them, and nothing but spaces after the first missing group.
WellGrouped(cell) ==
  /\ Len(cell) = 24
  /\ \A g \in 0..7 :
       /\ cell[3 * g + 3] = " "
       /\ (cell[3 * g + 1] = " ") = (cell[3 * g + 2] = " ")
       /\ cell[3 * g + 1] = " " => \A p \in (3 * g + 1)..24 : cell[p] = " "

C18_HexColumnWrapped ==
  \A j \in Rows :
    LET h == out[j].hex_column
        L == out[j].lines
        all == HexCells(j, 1)
    IN  /\ Len(L) = (IF Len(h) = 0 THEN 1 ELSE CeilDiv(Len(h), 24))
        /\ \A l \in 1..Len(L) : WellGrouped(L[l].hex)
        /\ SubSeq(all, 1, Len(h)) = h
        /\ \A p \in (Len(h) + 1)..Len(all) : all[p] = " "
        /\ L[1].offset = out[j].offset
        /\ L[1].length = out[j].length
        /\ L[1].text = Some(out[j].indentation \o out[j].text_column)
        /\ \A l \in 2..Len(L) :
             L[l].offset = None /\ L[l].length = None /\ L[l].text = None

\* An indented row whose hex takes three lines, the last of them padded.
C18_Witness ==
  \E j \in Rows :
    /\ Len(out[j].lines) = 3
    /\ out[j].indentation # <<>>
    /\ out[j].offset # None
    /\ out[j].lines[3].hex[4] = " "

(***************************************************************************)
(* C19.  As claimed: reaching the limit ends the traversal at every level, *)
(* so a run writes at most one limit comment.                              *)
(***************************************************************************)
LimitRows == {j \in Rows : out[j].site = "limit"}

C19_SingleLimitComment == Cardinality(LimitRows) <= 1

(***************************************************************************)
(* C19, amended.  Reaching the limit ends one inspect_level call: the call *)
(* writes its comment and returns.  Its caller steps out, closes the       *)
(* container and asks the reader for the next value of its own level; if   *)
(* there is one, the caller writes a limit comment of its own and returns  *)
(* in turn.  So after a limit comment come only closing rows, structural   *)
(* rows and further limit comments; each later limit comment is at a       *)
(* shallower depth than the one before; and in a run that ends without an  *)
(* error, every container around the value of a limit comment that is      *)
(* followed by a further value at its level has led to a limit comment at  *)
(* that value.                                                             *)
(***************************************************************************)
\* The values that follow container a at its own level.
LaterSiblings(a) ==
  {v \in Values : v > stream[a].last /\ stream[v].parent = stream[a].parent}
Least(S) == CHOOSE v \in S : \A w \in S : v <= w

C19_LimitCommentPerLevel ==
  /\ \A j \in LimitRows : \A r \in Rows :
       r > j =>
         /\ out[r].site \in {"limit", "close", "symtab_append", "symtab_reset"}
         /\ out[r].site = "limit" =>
              Len(out[r].indentation) < Len(out[j].indentation)
  /\ Finished =>
       \A j \in LimitRows : \A a \in Ancestors(out[j].node) :
         LaterSiblings(a) # {} =>
           Cardinality(RowsOf("limit", Least(LaterSiblings(a)))) = 1

\* A "stepping out" comment inside a container, then the container's closing
\* row, then the "ending" comment of the top level.
C19_Witness ==
  /\ Finished
  /\ \E j, k \in LimitRows : \E c \in Rows :
       /\ j < c /\ c < k
       /\ out[c].site = "close"
       /\ out[j].indentation # <<>>
       /\ out[k].indentation = <<>>

(***************************************************************************)
(* C20.  The output is never borrowed twice at a time.  No RefMut of it is *)
(* alive between two steps of the run, in particular not when reader.next  *)
(* calls the event handler; every step that writes takes the only borrow   *)
(* (borrow_mut finds none alive), writes one whole row and gives the       *)
(* borrow back.                                                            *)
(***************************************************************************)
C20_SinkBorrowedOnce ==
  [][ /\ borrow = 0
      /\ borrow' = 0
      /\ out' # out =>
           /\ borrow_mut(borrow) = 1
           /\ Len(out') = Len(out) + 1
           /\ SubSeq(out', 1, Len(out)) = out ]_vars

\* The event handler has written a row between two rows of the traversal.
C20_Witness ==
  \E j \in Rows :
    /\ j + 2 \in Rows
    /\ out[j].site \in {"value", "close"}
    /\ out[j + 1].site \in {"symtab_append", "symtab_reset"}
    /\ out[j + 2].site \in ValueSites

(***************************************************************************)
(* C21.  Every row is rendered from buffers that hold nothing of an        *)
(* earlier row: the hex and the text of a field-id, annotations or value   *)
(* row are those of to_hex and of the text writer applied to that part of  *)
(* that value alone; the text of a comment row is its comment alone; and   *)
(* between two steps the output buffer of the text writer is empty.        *)
(***************************************************************************)
\* The text writer's rendering of scalar (or null) value i on its own.
OwnValueText(i) ==
  LET body == InputBytes(HeaderEnd(i), stream[i].value_end)
  IN  IF stream[i].isNull THEN NullText(stream[i].type)
      ELSE IF stream[i].type = "Integer" THEN ToString(body[1])
      ELSE IF stream[i].type = "String" THEN StringText(body)
      ELSE text_for(body[1])
\* The comment that follows value i: the symbol id of a symbol.
OwnComment(i) ==
  IF ~stream[i].isNull /\ stream[i].type = "Symbol"
    THEN <<" // $", ToString(InputBytes(HeaderEnd(i), stream[i].value_end)[1])>>
    ELSE <<>>
\* The text column of the row that site writes for value i, from empty buffers.
OwnText(site, i) ==
  CASE site = "field" ->
         <<"'", text_for(stream[i].field_id[1]), "':">>
           \o Dimmed(<<" // $", ToString(stream[i].field_id[1]), ":">>)
    [] site = "annotations" ->
         LET ids == stream[i].annotation_ids
         IN  join_into(<<"'">>, "'::'", [n \in 1..Len(ids) |-> text_for(ids[n])])
               \o <<"'::">>
               \o Dimmed(join_into(<<" // $">>, "::$",
                                   [n \in 1..Len(ids) |-> ToString(ids[n])])
                           \o <<"::">>)
    [] site = "value" ->
         IF IsContainer(i) /\ ~stream[i].isNull
           THEN <<OpeningDelimiter(stream[i].type)>>
           ELSE <<OwnValueText(i)>>
                  \o (IF stream[i].depth > 0 THEN <<",">> ELSE <<>>)
                  \o Dimmed(OwnComment(i))
\* The hex column of that row, from an empty buffer.
OwnHex(site, i) ==
  CASE site = "field" ->
         to_hex(<<>>, InputBytes(stream[i].field_id_offset[1],
                                 stream[i].field_id_offset[1] + stream[i].field_id_length[1]))
    [] site = "annotations" ->
         to_hex(<<>>, InputBytes(stream[i].annotations_offset[1],
                                 stream[i].annotations_offset[1]
                                   + stream[i].annotations_length[1]))
    [] site = "value" ->
         IF IsContainer(i)
           THEN to_hex(<<>>, InputBytes(stream[i].header_offset, HeaderEnd(i)))
           ELSE to_hex(<<>>, InputBytes(stream[i].header_offset, HeaderEnd(i)))
                  \o <<" ">>
                  \o to_hex(<<>>, InputBytes(HeaderEnd(i), stream[i].value_end))
\* The comments a row can consist of.
SkippedComments ==
  {Dimmed(<<"// Skipped ", ToString(n), " bytes of user-level data">>) :
     n \in 1..Len(ion_data)}
LimitComments ==
  {Dimmed(<<"// --limit-bytes reached, stepping out.">>),
   Dimmed(<<"// --limit-bytes reached, ending.">>)}
SymbolTableComment(i) ==
  IF stream[i].kind = "append"
    THEN Dimmed(join_into(<<"// Local symbol table append: [\"">>, "\", \"",
                          stream[i].symbols) \o <<"\"]">>)
    ELSE IF stream[i].symbols = <<>>
      THEN Dimmed(<<"// Using system symbol table">>)
      ELSE Dimmed(join_into(<<"// New local symbol table: [\"">>, "\", \"",
                            stream[i].symbols) \o <<"\"]">>)

C21_RowsHoldNothingStale ==
  /\ \A j \in Rows :
       /\ out[j].site \in ValueSites =>
            /\ out[j].text_column = OwnText(out[j].site, out[j].node)
            /\ out[j].hex_column = OwnHex(out[j].site, out[j].node)
       /\ out[j].site = "skipped" => out[j].text_column \in SkippedComments
       /\ out[j].site = "limit" => out[j].text_column \in LimitComments
       /\ out[j].site \in StructuralSites \ {"ivm"} =>
            out[j].text_column = SymbolTableComment(out[j].node)
       /\ out[j].site = "close" =>
            /\ out[j].hex_column = <<>>
            /\ out[j].text_column = <<closing_delimiter_for(stream[out[j].node].type)>>
  /\ text_ion_writer = <<>>

\* A finished run in which the buffers were used again and again: the value
\* row of a scalar with a comment, then a field-id row with a shorter hex,
\* then the value row of a scalar with another text and without a comment.
C21_Witness ==
  /\ Finished
  /\ \E j, f, k \in Rows :
       /\ j < f /\ f < k
       /\ out[j].site = "value" /\ out[f].site = "field" /\ out[k].site = "value"
       /\ ~IsContainer(out[j].node) /\ ~IsContainer(out[k].node)
       /\ OwnComment(out[j].node) # <<>>
       /\ OwnComment(out[k].node) = <<>>
       /\ out[j].text_column # out[k].text_column
       /\ Len(out[f].hex_column) < Len(out[j].hex_column)

(***************************************************************************)
(* C22.  When output() fails under on_ivm, on_symbol_table_append or       *)
(* on_symbol_table_reset, the failure ends the run there and then: the     *)
(* step in which it happens is the last step of the run, the run does not  *)
(* end well, and no row is written in that step or after it.               *)
(***************************************************************************)
\* The output has failed under a system event handler.
HandlerFailed == error # None /\ error[1].kind = "panic"

C22_HandlerFailureEndsRun ==
  [][/\ (~HandlerFailed /\ HandlerFailed') =>
          (pc' = "done" /\ result' = "panic" /\ out' = out)
     /\ HandlerFailed => (out' = out /\ pc' = "done" /\ result' = "panic")]_vars

\* The output failed under the handler of a symbol table that follows a
\* value and is followed by one: rows had been written, the table's row and
\* the rows of the values after it have not.
C22_Witness ==
  /\ HandlerFailed
  /\ pc = "done"
  /\ result = "panic"
  /\ \E i \in SymbolTables :
       /\ nxt = i + 1
       /\ i > 1 /\ i < Len(stream)
       /\ stream[i - 1].kind = "value"
       /\ RowsOf("value", i - 1) # {}
       /\ RowsOf(StructuralSite(i), i) = {}
       /\ RowsOf("value", i + 1) = {}

(***************************************************************************)
(* C23.  An inspect_level call that returns Ok, at the end of its level or *)
(* at the limit, returns with the reader at the depth and the indentation  *)
(* buffer at the length they had when the call was made.  While a call is  *)
(* at work in its own level (requesting a value, showing it, closing a     *)
(* container) the reader is at the depth of the call's entry: the step_in  *)
(* before a nested call has been undone by a step_out.  The indentation    *)
(* buffer holds a whole level whenever a level is taken off it.            *)
(***************************************************************************)
\* The call on top of the stack is at work in its own level.
InOwnLevel ==
  pc \in {"next", "loop", "field", "annotations", "value", "step_in", "return", "close"}
\* This step is the return of the call on top of the stack.
Returns == frames # <<>> /\ frames' = SubSeq(frames, 1, Len(frames) - 1)

C23_LevelRestored ==
  [][/\ InOwnLevel => depth = top.entered.depth
     /\ pc \in {"inspect_level", "step_out"} /\ frames # <<>> =>
          depth = top.entered.depth + 1
     /\ Returns =>
          /\ depth' = top.entered.depth
          /\ Len(indentation_buffer') = top.entered.indentation
          /\ depth > 0 => Len(indentation_buffer) >= Len(LEVEL_INDENTATION)]_vars

\* A finished run in which a nested call returned at the end of its level
\* (its container, itself nested, is closed) and a nested call returned at
\* the limit.
C23_Witness ==
  /\ Finished
  /\ \E j \in Rows : out[j].site = "close" /\ stream[out[j].node].depth = 1
  /\ \E j \in Rows : out[j].site = "limit" /\ stream[out[j].node].depth = 1

(***************************************************************************)
(* C24, as claimed.  In a run that ends without an error, every            *)
(* inspect_level call that suppressed a value has written a "Skipped N     *)
(* bytes of user-level data" row.                                          *)
(***************************************************************************)
\* The levels of the stream: the top level (0) and the containers.
Levels == {0} \cup {i \in Values : IsContainer(i)}
\* The values an inspect_level call on level p reads.
Children(p) == {c \in Values : stream[c].parent = p}
\* Those of them that end at or before bytes_to_skip.
SuppressedIn(p) == {c \in Children(p) : RangeEnd(c) <= bytes_to_skip}
\* An inspect_level call was made for level p: the top-level call, or the
\* call that follows the value row of container p.
Inspected(p) == p = 0 \/ RowsOf("value", p) # {}
\* The skip comments and the limit comments written by the call for level p.
SkipRows(p) == {j \in Rows : out[j].site = "skipped" /\ stream[out[j].node].parent = p}
LimitRowsIn(p) == {j \in Rows : out[j].site = "limit" /\ stream[out[j].node].parent = p}
\* The rows that display the values of level p.
ChildRows(p) ==
  {j \in Rows : out[j].site \in ValueSites /\ stream[out[j].node].parent = p}

Containers == {i \in Values : IsContainer(i)}
\* The deepest nesting of containers: 0 without containers.
RECURSIVE MaxOf(_)
MaxOf(S) ==
  IF S = {} THEN 0
  ELSE LET x == CHOOSE y \in S : TRUE
           m == MaxOf(S \ {x})
       IN  IF x > m THEN x ELSE m
MaxNestingDepth == MaxOf({stream[i].depth + 1 : i \in Containers})
\* The run has ended, well or with an error.
Returned == pc = "done" /\ result \in {"ok", "err"} /\ frames = <<>>

C25_TraversalTerminates ==
  /\ <>Returned
  /\ [](Len(frames) <= MaxNestingDepth + 1)
  /\ [][/\ (pc = "next" /\ pc' = "loop") => (nxt' > nxt /\ cur' >= nxt /\ cur' > cur)
        /\ (Len(frames') = Len(frames) + 1 /\ frames # <<>>) =>
             /\ parents # <<>>
             /\ parents[Len(parents)] \in Containers
             /\ parents[Len(parents)] = top.node
             /\ depth = Len(frames)]_vars

\* A run that has ended after its calls were nested as deep as the stream
\* allows, the innermost one having read a value.
C25_Witness ==
  /\ Returned
  /\ Len(stream) = MaxNodes
  /\ MaxNestingDepth = MaxNodes - 1
  /\ \E j \in Rows : out[j].site = "value" /\ stream[out[j].node].depth = MaxNestingDepth

====
